---- MODULE Spec2Model ----
(***************************************************************************)
(* A model of the pickling subsystem of typechk (src/src/Pickle.ts) and of *)
(* the predicates of src/src/TypeChk.ts it consumes.                       *)
(*                                                                         *)
(* JavaScript values are records with a field k naming their kind.  A      *)
(* field name always holds the same type of value, so that two values of   *)
(* different kinds can be compared.  Tree-text (the output of              *)
(* JSON.stringify, the input of JSON.parse) is modelled by its syntax      *)
(* tree, with kinds jnull, jbool, jnum, jstr, jarr, jobj, and by the one   *)
(* text Malformed that is not syntactically valid.                         *)
(***************************************************************************)
EXTENDS Integers, Sequences, FiniteSets, TLC

VARIABLES
  browser,   \* hasField(process, 'browser'): the host object is window
  slot,      \* the pickleKey field of the host object (window or global)
  load,      \* what registerPickling() returned at module load
  to,        \* global[pickleKey].to   : symbol -> encoder (picklers())
  from,      \* global[pickleKey].from : symbol -> decoder (unpicklers())
  pin,       \* the value given to the last Pickle call of the caller
  pout,      \* what that call returned (text, undefined) or threw
  uin,       \* the text given to the last Unpickle call
  uout,      \* what that call returned or threw
  spred,     \* the predicate given to the last SafelyUnpickle call
  sout,      \* what SafelyUnpickle(uin-or-pout, spred) returned or threw
  rout,      \* Pickle(uout): the re-pickling of the unpickled value
  call,      \* the last call of a function of TypeChk.ts the caller made
  ret        \* what that call returned or threw, and its argument after it

vars ==
  <<browser, slot, load, to, from, pin, pout, uin, uout, spred, sout, rout,
    call, ret>>

-----------------------------------------------------------------------------
(* Bounds *)

\* The largest number of elements of the Sets, Maps and arrays of WideValues.
MaxLen == 2

-----------------------------------------------------------------------------
(* JavaScript values *)

Null == [k |-> "null"]
Undefined == [k |-> "undefined"]
NaN == [k |-> "nan"]
Bool(b) == [k |-> "boolean", b |-> b]
Num(n) == [k |-> "number", n |-> n]
Str(s) == [k |-> "string", s |-> s]
BigIntV(n) == [k |-> "bigint", n |-> n]
\* Symbol.for(key): the one symbol of the global symbol registry with that key
SymbolFor(key) == [k |-> "symbol", key |-> key]
\* Symbol(): a locally created symbol; Symbol.keyFor of it is undefined
LocalSymbol(id) == [k |-> "symbol", id |-> id]
Fn(name) == [k |-> "function", name |-> name]
Arr(items) == [k |-> "array", items |-> items]
\* A set or a map keeps its elements in insertion order
SetV(items) == [k |-> "set", items |-> items]
MapV(entries) == [k |-> "map", entries |-> entries]
DateV(t) == [k |-> "date", t |-> t]
InvalidDate == [k |-> "date", invalid |-> TRUE]
RegExpV(source, flags) == [k |-> "regexp", source |-> source, flags |-> flags]
NoTag == [k |-> "notag"]
\* An ordinary object: its own enumerable string-keyed fields in order, the
\* value of its FreikTypeTag field (NoTag when it has none), and the name of
\* its toJSON method ("none" when it has none).
Obj(fields, tag, toJSON) ==
  [k |-> "object", fields |-> fields, tag |-> tag, toJSON |-> toJSON]
Plain(fields) == Obj(fields, NoTag, "none")
\* A Set object that was given a FreikTypeTag field
TaggedSet(items, tag) == [k |-> "set", items |-> items, tag |-> tag]
\* An object that is neither an array, a Set nor a Map and whose prototype has
\* a Symbol.iterator method (the instance of an iterable class): the items
\* one iteration of it yields.  It has no own enumerable field.
Iter(items) == [k |-> "iterable", items |-> items]
\* The outcome of a call that threw
Throw(err) == [k |-> "throw", err |-> err]
\* No call has been made
None == [k |-> "none"]
NoCall == [fn |-> "none"]

IsThrow(x) == x.k = "throw"

\* Tree-text
JNull == [k |-> "jnull"]
JBool(b) == [k |-> "jbool", b |-> b]
JNum(n) == [k |-> "jnum", n |-> n]
JStr(s) == [k |-> "jstr", s |-> s]
JArr(elems) == [k |-> "jarr", elems |-> elems]
JObj(members) == [k |-> "jobj", members |-> members]
Malformed == [k |-> "malformed"]

JKinds == {"jnull", "jbool", "jnum", "jstr", "jarr", "jobj"}
IsText(x) == x.k \in JKinds

Range(s) == {s[i] : i \in 1..Len(s)}

-----------------------------------------------------------------------------
(* Types.ts and the tags of Pickle.ts *)

FreikTypeTag == SymbolFor("freik.typetag")

SetTag == SymbolFor("freik.Set")
MapTag == SymbolFor("freik.Map")
SymbolTag == SymbolFor("freik.Symbol")
RegexTag == SymbolFor("freik.RegExp")
DateTag == SymbolFor("freik.Date")
BigIntTag == SymbolFor("freik.BigInt")

\* Symbol.keyFor(sym): Undefined for a symbol that is not in the global registry
KeyFor(sym) == IF "key" \in DOMAIN sym THEN Str(sym.key) ELSE Undefined

\* The envelope's field names
DataType == "@dataType"
DataValue == "@dataValue"

-----------------------------------------------------------------------------
(* The predicate library, TypeChk.ts *)

isObject(obj) ==
  obj.k \in {"null", "object", "array", "set", "map", "date", "regexp", "iterable"}
isNonNullable(obj) == obj.k \notin {"null", "undefined"}
isObjectNonNull(obj) == isObject(obj) /\ isNonNullable(obj)
isArray(obj) == obj.k = "array"
is2Tuple(obj) == obj.k = "array" /\ Len(obj.items) = 2
isString(obj) == obj.k = "string"
isNumber(obj) == obj.k = "number"
isBoolean(obj) == obj.k = "boolean"
isDate(obj) == obj.k = "date"
isBigInt(obj) == obj.k = "bigint"
isFunction(obj) == obj.k = "function"
isRegex(obj) == obj.k = "regexp"
isMap(obj) == obj.k = "map"
isSet(obj) == obj.k = "set"
isSymbol(obj) == obj.k = "symbol"

\* Object.keys(obj): the own enumerable string keys, in order.  A function
\* held in the field toJSON is an own enumerable field as well.
FieldKeys(obj) == [i \in 1..Len(obj.fields) |-> obj.fields[i][1]]
FieldGet(obj, key) ==
  LET i == CHOOSE i \in 1..Len(obj.fields) : obj.fields[i][1] = key
  IN obj.fields[i][2]

\* key in obj, for the string keys the code asks for.  A RegExp has source
\* and flags, a Date has toJSON (both on the prototype).
HasStringKey(obj, key) ==
  CASE obj.k = "object" ->
         \/ key \in Range(FieldKeys(obj))
         \/ key = "toJSON" /\ obj.toJSON # "none"
    [] obj.k = "regexp" -> key \in {"source", "flags"}
    [] obj.k = "date" -> key = "toJSON"
    [] OTHER -> FALSE

\* obj[key] for such a key
GetStringKey(obj, key) ==
  CASE obj.k = "object" ->
         IF key \in Range(FieldKeys(obj)) THEN FieldGet(obj, key)
         ELSE Fn(obj.toJSON)
    [] obj.k = "regexp" ->
         IF key = "source" THEN Str(obj.source) ELSE Str(obj.flags)
    [] obj.k = "date" -> Fn("Date.prototype.toJSON")
    [] OTHER -> Undefined

hasField(obj, key) == isObjectNonNull(obj) /\ HasStringKey(obj, key)
hasStrField(obj, key) == hasField(obj, key) /\ isString(GetStringKey(obj, key))

\* hasFieldType(obj, FreikTypeTag, isSymbol)
hasTypeTag(obj) ==
  isObjectNonNull(obj) /\ "tag" \in DOMAIN obj /\ obj.tag # NoTag /\ isSymbol(obj.tag)

\* hasFieldType(obj, 'toJSON', isFunction)
hasToJSON(obj) == hasField(obj, "toJSON") /\ isFunction(GetStringKey(obj, "toJSON"))

\* hasField(obj, Symbol.iterator)
isIterable(obj) ==
  isObjectNonNull(obj) /\ obj.k \in {"array", "set", "map", "iterable"}

\* isSimpleObject: null, string, number (not NaN), boolean, an array of
\* simple objects, or a non-null object all of whose own enumerable string
\* keys and own symbol keys hold simple objects.  A Set, a Map, a Date and a
\* RegExp have no such key and so pass, unless they were given a FreikTypeTag
\* field; the FreikTypeTag field holds a symbol and a toJSON field a
\* function, neither of which is simple.
RECURSIVE isSimpleObject(_)
isSimpleObject(x) ==
  \/ x.k = "null"
  \/ isString(x)
  \/ isNumber(x)
  \/ isBoolean(x)
  \/ isArray(x) /\ \A i \in 1..Len(x.items) : isSimpleObject(x.items[i])
  \/ /\ isObjectNonNull(x)
     /\ CASE x.k = "object" ->
               /\ \A i \in 1..Len(x.fields) : isSimpleObject(x.fields[i][2])
               /\ x.tag = NoTag
               /\ x.toJSON = "none"
          [] x.k = "array" -> FALSE
          [] OTHER -> "tag" \notin DOMAIN x

-----------------------------------------------------------------------------
(* Conversions of the JavaScript library that the codecs call *)

\* The timestamps and big integers of the model
DateTimes == {0, 1}
BigInts == {0, 1, 12}

\* Date.prototype.toISOString of a valid date
IsoString(t) == "1970-01-01T00:00:00.00" \o ToString(t) \o "Z"

\* new Date(s): the date a string parses to; an Invalid Date (no exception)
\* for a string that does not parse.  "1970-01-01" is a date-only form.
ParseDate(s) ==
  IF \E t \in DateTimes : IsoString(t) = s
  THEN DateV(CHOOSE t \in DateTimes : IsoString(t) = s)
  ELSE IF s = "1970-01-01" THEN DateV(0) ELSE InvalidDate

\* BigInt(s): StringToBigInt accepts the decimal digits of a big integer, with
\* leading zeros, the empty string (0n) and a hexadecimal, octal or binary
\* literal; it throws a SyntaxError otherwise.
ParseBigInt(s) ==
  IF \E n \in BigInts : ToString(n) = s
  THEN BigIntV(CHOOSE n \in BigInts : ToString(n) = s)
  ELSE IF s = "" THEN BigIntV(0)
  ELSE IF s = "01" THEN BigIntV(1)
  ELSE IF s = "0x1" THEN BigIntV(1)
  ELSE Throw("SyntaxError")

\* new RegExp(source, flags): throws a SyntaxError for a pattern or a set of
\* flags that is not valid; the flags of the result are in canonical order.
ValidPatterns == {"a", "b"}
CanonicalFlags(flags) == IF flags = "ig" THEN "gi" ELSE flags
ValidFlags == {"", "g", "i", "gi", "ig"}
NewRegExp(source, flags) ==
  IF source \in ValidPatterns /\ flags \in ValidFlags
  THEN RegExpV(source, CanonicalFlags(flags))
  ELSE Throw("SyntaxError")

\* SameValueZero, the key comparison of Set and Map: primitives by value,
\* objects by identity (every object the parser or a codec builds is new).
IsPrimitive(x) ==
  x.k \in {"null", "undefined", "nan", "boolean", "number", "string",
           "bigint", "symbol"}
SameValueZero(a, b) == IsPrimitive(a) /\ IsPrimitive(b) /\ a = b

\* new Set(items): a repeated element is kept once, at its first position
RECURSIVE NewSetItems(_)
NewSetItems(items) ==
  IF items = <<>> THEN <<>>
  ELSE LET n == Len(items)
           init == NewSetItems(SubSeq(items, 1, n - 1))
       IN IF \E i \in 1..Len(init) : SameValueZero(init[i], items[n])
          THEN init
          ELSE Append(init, items[n])
NewSet(items) == SetV(NewSetItems(items))

\* new Map(pairs): a repeated key keeps its first position and takes the
\* last value
RECURSIVE NewMapEntries(_)
NewMapEntries(pairs) ==
  IF pairs = <<>> THEN <<>>
  ELSE LET n == Len(pairs)
           init == NewMapEntries(SubSeq(pairs, 1, n - 1))
           key == pairs[n].items[1]
           val == pairs[n].items[2]
       IN IF \E i \in 1..Len(init) : SameValueZero(init[i][1], key)
          THEN [i \in 1..Len(init) |->
                  IF SameValueZero(init[i][1], key) THEN <<key, val>> ELSE init[i]]
          ELSE Append(init, <<key, val>>)
NewMap(pairs) == MapV(NewMapEntries(pairs))

-----------------------------------------------------------------------------
(* The envelope *)

\* isFlattened taking any payload, serializer-safe or not
isFlattened_AnyPayload(obj) == hasStrField(obj, DataType) /\ hasField(obj, DataValue)

\* isFlattened asking for the tag field only
isFlattened_TagOnly(obj) == hasStrField(obj, DataType)

isFlattened(obj) ==
  /\ hasStrField(obj, DataType)
  /\ hasField(obj, DataValue) /\ isSimpleObject(GetStringKey(obj, DataValue))

MakeFlat(name, data) == Plain(<<<<DataType, Str(name)>>, <<DataValue, data>>>>)

GetFlat(val) == <<GetStringKey(val, DataType).s, GetStringKey(val, DataValue)>>

-----------------------------------------------------------------------------
(* The built-in codecs, and the codecs and types of the test suite *)

TestSymbol == SymbolFor("pickler.Test")
Test2Symbol == SymbolFor("pickler.Test2")
Test3Symbol == SymbolFor("pickler.Test3")

MakeType ==
  Obj(<<<<"value1", Str("a")>>, <<"value2", RegExpV("a", "gi")>>>>,
      TestSymbol, "MyTestThingy")
MakeType2 ==
  Obj(<<<<"value1", Str("a")>>, <<"value2", RegExpV("a", "gi")>>>>,
      Test2Symbol, "none")
\* What a second decoder for Test2Symbol makes
MakeType2B == Obj(<<<<"value1", Str("b")>>>>, Test2Symbol, "none")
MakeType3(v1, v2) ==
  Obj(<<<<"value1", Str(v1)>>, <<"value2", Str(v2)>>>>, Test3Symbol, "Type3")

\* obj.toJSON(): the methods of the test types, and Date.prototype.toJSON
\* (null for an Invalid Date)
CallToJSON(obj) ==
  CASE obj.k = "date" ->
         IF "t" \in DOMAIN obj THEN Str(IsoString(obj.t)) ELSE Null
    [] obj.k = "object" /\ obj.toJSON = "MyTestThingy" -> Str("My Test Thingy")
    [] obj.k = "object" /\ obj.toJSON = "Type3" ->
         Plain(<<<<"value1", FieldGet(obj, "value1")>>,
                 <<"value2", FieldGet(obj, "value2")>>>>)
    [] OTHER -> Throw("TypeError")

MapPickle(val) ==
  Arr([i \in 1..Len(val.entries) |-> Arr(<<val.entries[i][1], val.entries[i][2]>>)])

isArrayOf2Tuple(val) ==
  isArray(val) /\ \A i \in 1..Len(val.items) : is2Tuple(val.items[i])

MapUnpickle(val) == IF isArrayOf2Tuple(val) THEN NewMap(val.items) ELSE Undefined

SetPickle(val) == Arr(val.items)

\* SetUnpickle handing the stored array back without building the Set
SetUnpickle_NoSet(val) == IF isArray(val) THEN val ELSE Undefined

SetUnpickle(val) == IF isArray(val) THEN NewSet(val.items) ELSE Undefined

\* SymbolPickle writing an empty key for a symbol Symbol.keyFor does not know
SymbolPickle_NoThrow(val) ==
  LET theKey == KeyFor(val)
  IN IF theKey = Undefined THEN Str("") ELSE theKey

SymbolPickle(val) ==
  LET theKey == KeyFor(val)
  IN IF theKey = Undefined THEN Throw("Error") ELSE theKey

SymbolUnpickle(val) == IF isString(val) THEN SymbolFor(val.s) ELSE Undefined

RegexPickle(val) ==
  Plain(<<<<"source", Str(val.source)>>, <<"flags", Str(val.flags)>>>>)

RegexUnpickle(val) ==
  IF hasStrField(val, "source") /\ hasStrField(val, "flags")
  THEN NewRegExp(GetStringKey(val, "source").s, GetStringKey(val, "flags").s)
  ELSE Undefined

DatePickle(val) == CallToJSON(val)

DateUnpickle(val) == IF isString(val) THEN ParseDate(val.s) ELSE Undefined

BigIntPickle(val) == Str(ToString(val.n))

BigIntUnpickle(val) ==
  IF isString(val)
  THEN LET b == ParseBigInt(val.s) IN IF IsThrow(b) THEN Undefined ELSE b
  ELSE Undefined

Type3Unpickle(so) ==
  IF hasStrField(so, "value1") /\ hasStrField(so, "value2")
  THEN MakeType3(GetStringKey(so, "value1").s, GetStringKey(so, "value2").s)
  ELSE Undefined

\* An encoder a caller registers for Test3Symbol: the two strings of the
\* value it is given, and whether that value has the FreikTypeTag field
Type3Pickle(val) ==
  IF hasStrField(val, "value1") /\ hasStrField(val, "value2")
  THEN Plain(<<<<"value1", GetStringKey(val, "value1")>>,
               <<"value2", GetStringKey(val, "value2")>>,
               <<"tagged", Bool(hasTypeTag(val))>>>>)
  ELSE Plain(<<<<"tagged", Bool(hasTypeTag(val))>>>>)

\* The fallback encoder getPickler builds for a tagged value with a toJSON
toJSONFallback(val) == IF hasToJSON(val) THEN CallToJSON(val) ELSE Str("ERROR")

\* toFlat(val) for the encoder named p.  A built-in encoder given a value of
\* another type reads a method the value does not have: a TypeError.
ApplyToFlat(p, val) ==
  CASE p = "MapPickle" -> IF isMap(val) THEN MapPickle(val) ELSE Throw("TypeError")
    [] p = "SetPickle" -> IF isSet(val) THEN SetPickle(val) ELSE Throw("TypeError")
    [] p = "SymbolPickle" ->
         IF isSymbol(val) THEN SymbolPickle(val) ELSE Throw("TypeError")
    [] p = "RegexPickle" ->
         IF isRegex(val) THEN RegexPickle(val) ELSE Throw("TypeError")
    [] p = "DatePickle" -> IF isDate(val) THEN DatePickle(val) ELSE Throw("TypeError")
    [] p = "BigIntPickle" ->
         IF isBigInt(val) THEN BigIntPickle(val) ELSE Throw("TypeError")
    [] p = "Test2Pickle" -> Str("My Test2 Thingy")
    [] p = "Type3Pickle" -> Type3Pickle(val)
    [] p = "toJSONFallback" -> toJSONFallback(val)

\* fromFlat(data) for the decoder named p
ApplyFromFlat(p, data) ==
  CASE p = "MapUnpickle" -> MapUnpickle(data)
    [] p = "SetUnpickle" -> SetUnpickle(data)
    [] p = "SymbolUnpickle" -> SymbolUnpickle(data)
    [] p = "RegexUnpickle" -> RegexUnpickle(data)
    [] p = "DateUnpickle" -> DateUnpickle(data)
    [] p = "BigIntUnpickle" -> BigIntUnpickle(data)
    [] p = "TestUnpickle" -> MakeType
    [] p = "Test2Unpickle" -> MakeType2
    [] p = "Test2UnpickleB" -> MakeType2B
    [] p = "Type3Unpickle" -> Type3Unpickle(data)

builtInPickleTypes ==
  << <<"isMap", MapTag>>, <<"isSet", SetTag>>, <<"isSymbol", SymbolTag>>,
     <<"isRegex", RegexTag>>, <<"isDate", DateTag>>, <<"isBigInt", BigIntTag>> >>

Checker(name, obj) ==
  CASE name = "isMap" -> isMap(obj)
    [] name = "isSet" -> isSet(obj)
    [] name = "isSymbol" -> isSymbol(obj)
    [] name = "isRegex" -> isRegex(obj)
    [] name = "isDate" -> isDate(obj)
    [] name = "isBigInt" -> isBigInt(obj)

thePicklers ==
  (MapTag :> "MapPickle") @@ (SetTag :> "SetPickle") @@
  (SymbolTag :> "SymbolPickle") @@ (RegexTag :> "RegexPickle") @@
  (DateTag :> "DatePickle") @@ (BigIntTag :> "BigIntPickle")

theUnpicklers ==
  (MapTag :> "MapUnpickle") @@ (SetTag :> "SetUnpickle") @@
  (SymbolTag :> "SymbolUnpickle") @@ (RegexTag :> "RegexUnpickle") @@
  (DateTag :> "DateUnpickle") @@ (BigIntTag :> "BigIntUnpickle")

-----------------------------------------------------------------------------
(* The registry accessors.  picklers and unpicklers are the maps of the      *)
(* process-wide slot; the operators take them as parameters.                 *)

\* Map.prototype.get: "none" stands for undefined
getPickleHandler(picklers, sym) ==
  IF sym \in DOMAIN picklers THEN picklers[sym] ELSE "none"

\* getUnpickleHandler reading the Map as it was when the module loaded
getUnpickleHandler_AtLoad(unpicklers, sym) ==
  IF sym \in DOMAIN theUnpicklers THEN theUnpicklers[sym] ELSE "none"

getUnpickleHandler(unpicklers, sym) ==
  IF sym \in DOMAIN unpicklers THEN unpicklers[sym] ELSE "none"

setPickleHandler(picklers, pickleTag, toString) ==
  [s \in DOMAIN picklers \cup {pickleTag} |->
     IF s = pickleTag THEN toString ELSE picklers[s]]

\* setUnpickleHandler putting the entry into a new, empty Map
setUnpickleHandler_NewMap(unpicklers, pickleTag, fromString) ==
  [s \in {pickleTag} |-> fromString]

setUnpickleHandler(unpicklers, pickleTag, fromString) ==
  [s \in DOMAIN unpicklers \cup {pickleTag} |->
     IF s = pickleTag THEN fromString ELSE unpicklers[s]]

NoPickler == [sym |-> NoTag, toFlat |-> "none"]

\* The first built-in type the value matches that has an encoder
BuiltInMatches(picklers, obj) ==
  {i \in 1..Len(builtInPickleTypes) :
     /\ Checker(builtInPickleTypes[i][1], obj)
     /\ getPickleHandler(picklers, builtInPickleTypes[i][2]) # "none"}

getBuiltInPickler(picklers, obj) ==
  LET m == BuiltInMatches(picklers, obj)
  IN IF m = {} THEN NoPickler
     ELSE LET i == CHOOSE i \in m : \A j \in m : i <= j
          IN [sym |-> builtInPickleTypes[i][2],
              toFlat |-> getPickleHandler(picklers, builtInPickleTypes[i][2])]

\* getPickler without the toJSON fallback for a tag that has no encoder
getPickler_NoFallback(picklers, obj) ==
  IF hasTypeTag(obj)
  THEN LET s == obj.tag
           p == getPickleHandler(picklers, s)
       IN IF p # "none" THEN [sym |-> s, toFlat |-> p]
          ELSE getBuiltInPickler(picklers, obj)
  ELSE getBuiltInPickler(picklers, obj)

getPickler(picklers, obj) ==
  IF hasTypeTag(obj)
  THEN LET s == obj.tag
           p == getPickleHandler(picklers, s)
       IN IF p # "none" THEN [sym |-> s, toFlat |-> p]
          ELSE IF hasToJSON(obj) THEN [sym |-> s, toFlat |-> "toJSONFallback"]
          ELSE getBuiltInPickler(picklers, obj)
  ELSE getBuiltInPickler(picklers, obj)

getUnpickler(unpicklers, keyName) == getUnpickleHandler(unpicklers, SymbolFor(keyName))

\* [...originalObject] of an iterable
Spread(obj) ==
  CASE obj.k = "array" -> Arr(obj.items)
    [] obj.k = "set" -> Arr(obj.items)
    [] obj.k = "iterable" -> Arr(obj.items)
    [] obj.k = "map" -> MapPickle(obj)

\* replacer giving the encoder the value JSON.stringify handed in
replacer_PassesValue(picklers, originalObject, value) ==
  LET pickler == getPickler(picklers, originalObject)
  IN IF pickler # NoPickler
     THEN LET keyFor == KeyFor(pickler.sym)
          IN IF keyFor = Undefined THEN value
             ELSE LET flat == ApplyToFlat(pickler.toFlat, value)
                  IN IF IsThrow(flat) THEN flat ELSE MakeFlat(keyFor.s, flat)
     ELSE IF isIterable(originalObject) THEN Spread(originalObject)
     ELSE value

\* replacer(key, value) with this[key] = originalObject
replacer(picklers, originalObject, value) ==
  LET pickler == getPickler(picklers, originalObject)
  IN IF pickler # NoPickler
     THEN LET keyFor == KeyFor(pickler.sym)
          IN IF keyFor = Undefined THEN value
             ELSE LET flat == ApplyToFlat(pickler.toFlat, originalObject)
                  IN IF IsThrow(flat) THEN flat ELSE MakeFlat(keyFor.s, flat)
     ELSE IF isIterable(originalObject) THEN Spread(originalObject)
     ELSE value

\* reviver keeping whatever the decoder returned, undefined included
reviver_NoUndefinedCheck(unpicklers, value) ==
  IF isFlattened(value)
  THEN LET flat == GetFlat(value)
           pickler == getUnpickler(unpicklers, flat[1])
       IN IF pickler # "none" THEN ApplyFromFlat(pickler, flat[2]) ELSE value
  ELSE value

reviver(unpicklers, value) ==
  IF isFlattened(value)
  THEN LET flat == GetFlat(value)
           pickler == getUnpickler(unpicklers, flat[1])
       IN IF pickler # "none"
          THEN LET res == ApplyFromFlat(pickler, flat[2])
               IN IF res # Undefined THEN res ELSE value
          ELSE value
  ELSE value

-----------------------------------------------------------------------------
(* JSON.stringify(input, replacer) and JSON.parse(input, reviver) *)

\* The first exception among the results of the children, in order
HasThrow(seq) == \E i \in 1..Len(seq) : IsThrow(seq[i])
FirstThrow(seq) ==
  seq[CHOOSE i \in 1..Len(seq) : IsThrow(seq[i]) /\ \A j \in 1..(i - 1) : ~IsThrow(seq[j])]

\* The members of a serialized object: a field whose value serializes to
\* undefined is left out
RECURSIVE Members(_, _)
Members(keys, texts) ==
  IF keys = <<>> THEN <<>>
  ELSE LET n == Len(keys)
           init == Members(SubSeq(keys, 1, n - 1), SubSeq(texts, 1, n - 1))
       IN IF texts[n] = Undefined THEN init ELSE Append(init, <<keys[n], texts[n]>>)

\* SerializeJSONProperty(key, holder) with holder[key] = original: the value
\* is replaced by its toJSON() when it has one, then by the replacer (which
\* reads the original from the holder), and the result is serialized, its
\* children in turn as properties of the replaced value.  The result is a
\* text, Undefined (nothing to serialize), or the exception thrown.
RECURSIVE SerializeJSONProperty(_, _)
SerializeJSONProperty(picklers, original) ==
  LET value == IF (isObjectNonNull(original) \/ isBigInt(original)) /\ hasToJSON(original)
               THEN CallToJSON(original)
               ELSE original
      replaced == replacer(picklers, original, value)
  IN CASE replaced.k = "throw" -> replaced
       [] replaced.k = "null" -> JNull
       [] replaced.k = "boolean" -> JBool(replaced.b)
       [] replaced.k = "string" -> JStr(replaced.s)
       [] replaced.k = "number" -> JNum(replaced.n)
       [] replaced.k = "nan" -> JNull
       [] replaced.k = "bigint" -> Throw("TypeError")
       [] replaced.k = "array" ->
            LET texts == [i \in 1..Len(replaced.items) |->
                            SerializeJSONProperty(picklers, replaced.items[i])]
            IN IF HasThrow(texts) THEN FirstThrow(texts)
               ELSE JArr([i \in 1..Len(texts) |->
                            IF texts[i] = Undefined THEN JNull ELSE texts[i]])
       [] replaced.k = "object" ->
            LET texts == [i \in 1..Len(replaced.fields) |->
                            SerializeJSONProperty(picklers, replaced.fields[i][2])]
            IN IF HasThrow(texts) THEN FirstThrow(texts)
               ELSE JObj(Members(FieldKeys(replaced), texts))
       [] replaced.k \in {"set", "map", "date", "regexp", "iterable"} -> JObj(<<>>)
       [] OTHER -> Undefined

\* The fields of a parsed object
Fields(members, values) == [i \in 1..Len(members) |-> <<members[i][1], values[i]>>]

\* InternalizeJSONProperty: the children are revived first, then the reviver
\* is called on the node.  The reviver of Pickle.ts never returns undefined
\* for a parsed node, so no property is ever deleted.
RECURSIVE InternalizeJSONProperty(_, _)
InternalizeJSONProperty(unpicklers, text) ==
  CASE text.k = "jnull" -> reviver(unpicklers, Null)
    [] text.k = "jbool" -> reviver(unpicklers, Bool(text.b))
    [] text.k = "jnum" -> reviver(unpicklers, Num(text.n))
    [] text.k = "jstr" -> reviver(unpicklers, Str(text.s))
    [] text.k = "jarr" ->
         LET values == [i \in 1..Len(text.elems) |->
                          InternalizeJSONProperty(unpicklers, text.elems[i])]
         IN IF HasThrow(values) THEN FirstThrow(values)
            ELSE reviver(unpicklers, Arr(values))
    [] text.k = "jobj" ->
         LET values == [i \in 1..Len(text.members) |->
                          InternalizeJSONProperty(unpicklers, text.members[i][2])]
         IN IF HasThrow(values) THEN FirstThrow(values)
            ELSE reviver(unpicklers, Plain(Fields(text.members, values)))

-----------------------------------------------------------------------------
(* The public API *)

\* JSON.stringify(input, replacer)
Pickle(picklers, input) == SerializeJSONProperty(picklers, input)

\* Unpickle answering undefined for text JSON.parse rejects
Unpickle_Swallow(unpicklers, input) ==
  IF IsText(input) THEN InternalizeJSONProperty(unpicklers, input)
  ELSE Undefined

\* JSON.parse(input, reviver): a SyntaxError for text that is not valid
\* (JSON.parse(undefined) is one too)
Unpickle(unpicklers, input) ==
  IF IsText(input) THEN InternalizeJSONProperty(unpicklers, input)
  ELSE Throw("SyntaxError")

UnsafelyUnpickle(unpicklers, input) == Unpickle(unpicklers, input)

\* The predicates given to SafelyUnpickle
isCustomType(obj, sym) == hasTypeTag(obj) /\ obj.tag = sym
Check(check, val) ==
  CASE check = "isSet" -> isSet(val)
    [] check = "isObjectNonNull" -> isObjectNonNull(val)
    [] check = "chkCustomType(Test3Symbol)" -> isCustomType(val, Test3Symbol)

\* SafelyUnpickle returning the decoded root whatever the predicate says
SafelyUnpickle_Unchecked(unpicklers, input, check) ==
  UnsafelyUnpickle(unpicklers, input)

SafelyUnpickle(unpicklers, input, check) ==
  LET res == UnsafelyUnpickle(unpicklers, input)
  IN IF IsThrow(res) THEN res
     ELSE IF Check(check, res) THEN res ELSE Undefined

\* RegisterForPickling setting the decode entry only when no encoder was
\* given
RegisterForPickling_EncoderOnly(picklers, unpicklers, pickleTag, fromString, toString) ==
  IF toString # "none"
  THEN <<setPickleHandler(picklers, pickleTag, toString), unpicklers>>
  ELSE <<picklers, setUnpickleHandler(unpicklers, pickleTag, fromString)>>

\* RegisterForPickling setting the encode entry whether or not an encoder
\* was given
RegisterForPickling_AlwaysEncoder(picklers, unpicklers, pickleTag, fromString, toString) ==
  << setPickleHandler(picklers, pickleTag, toString),
     setUnpickleHandler(unpicklers, pickleTag, fromString) >>

\* RegisterForPickling(pickleTag, fromString, toString?): "none" stands for
\* an omitted toString.  The new pair of maps <<to, from>>.
RegisterForPickling(picklers, unpicklers, pickleTag, fromString, toString) ==
  << IF toString # "none" THEN setPickleHandler(picklers, pickleTag, toString)
     ELSE picklers,
     setUnpickleHandler(unpicklers, pickleTag, fromString) >>

-----------------------------------------------------------------------------
(* The process-wide slot and the module load.  The Maps of the slot are      *)
(* held by reference: the entries of the Map in its field to are the         *)
(* variable to, those of the Map in its field from the variable from.        *)

\* The host object has no pickleKey field
Absent == [k |-> "absent"]
\* The Map object whose entries are the variable of that name
MapRef(name) == [k |-> "map", ref |-> name]
\* { to: thePicklers, from: theUnpicklers }
RegistrySlot == Plain(<<<<"to", MapRef("to")>>, <<"from", MapRef("from")>>>>)

\* for (const [k, v] of obj): maps.to and maps.from are the entries of the
\* Maps held by reference; a handler of the registry is a function
MapEntriesOf(obj, maps) ==
  IF "ref" \in DOMAIN obj
  THEN LET handlers == IF obj.ref = "to" THEN maps.to ELSE maps.from
       IN {<<s, Fn(handlers[s])>> : s \in DOMAIN handlers}
  ELSE Range(obj.entries)

isOneOf(chk1, chk2) == chk1 \/ chk2

\* isMapOf(obj, chkOneOf(isSymbol, isString), isFunction)
isMapOf(obj, maps) ==
  IF ~isMap(obj) THEN FALSE
  ELSE \A e \in MapEntriesOf(obj, maps) :
         isOneOf(isSymbol(e[1]), isString(e[1])) /\ isFunction(e[2])

\* isSetOf(obj, isString)
isSetOfString(obj) ==
  isSet(obj) /\ \A i \in 1..Len(obj.items) : isString(obj.items[i])

\* The function-valued members every object literal inherits from
\* Object.prototype: key in fields is true for them as for an own key
ObjectPrototypeFunctions ==
  {"constructor", "toString", "toLocaleString", "valueOf", "hasOwnProperty",
   "isPrototypeOf", "propertyIsEnumerable", "__defineGetter__",
   "__defineSetter__", "__lookupGetter__", "__lookupSetter__"}

\* hasFieldType(fields, fieldName, isFunction) of a record of checkers
HasCheckerField(fields, fieldName) ==
  fieldName \in DOMAIN fields \/ fieldName \in ObjectPrototypeFunctions

\* fields[fieldName]: the own checker, or the inherited function
CheckerOf(fields, fieldName) ==
  IF fieldName \in DOMAIN fields THEN fields[fieldName]
  ELSE "Object.prototype." \o fieldName

\* checker(theVal) throws: a function of Object.prototype called with no
\* receiver converts undefined to an object, a TypeError; constructor and
\* toString do not, and isPrototypeOf does only for an object argument
CheckerThrows(name, val) ==
  \/ name \in {"Object.prototype." \o f :
                 f \in ObjectPrototypeFunctions
                        \ {"constructor", "toString", "isPrototypeOf"}}
  \/ name = "Object.prototype.isPrototypeOf"
       /\ (isObjectNonNull(val) \/ isFunction(val))

\* The checkers handed to isObjOfHelper, by name: whether checker(theVal) is
\* truthy.  Object(theVal) is an object and toString() a non-empty string;
\* isPrototypeOf answers false for a primitive.
FieldChecker(name, val, maps) ==
  CASE name = "chkMapOf(chkOneOf(isSymbol, isString), isFunction)" -> isMapOf(val, maps)
    [] name = "isString" -> isString(val)
    [] name = "isNumber" -> isNumber(val)
    [] name = "isFunction" -> isFunction(val)
    [] name = "isSetOfString" -> isSetOfString(val)
    [] name = "Object.prototype.constructor" -> TRUE
    [] name = "Object.prototype.toString" -> TRUE
    [] OTHER -> FALSE

\* Object.keys(obj)
ObjectKeys(obj) ==
  CASE obj.k = "object" ->
         IF obj.toJSON = "none" THEN FieldKeys(obj)
         ELSE Append(FieldKeys(obj), "toJSON")
    [] obj.k = "array" -> [i \in 1..Len(obj.items) |-> ToString(i - 1)]
    [] OTHER -> <<>>

\* obj[fieldName] for a key of Object.keys(obj)
ObjectGet(obj, fieldName) ==
  IF obj.k = "array"
  THEN LET i == CHOOSE i \in 1..Len(obj.items) : ToString(i - 1) = fieldName
       IN obj.items[i]
  ELSE GetStringKey(obj, fieldName)

\* delete obj[fieldName]: an array keeps its length and reads undefined there
ObjectDelete(obj, fieldName) ==
  IF obj.k = "array"
  THEN Arr([i \in 1..Len(obj.items) |->
              IF ToString(i - 1) = fieldName THEN Undefined ELSE obj.items[i]])
  ELSE [obj EXCEPT !.fields =
          SelectSeq(obj.fields, LAMBDA f : f[1] # fieldName)]

\* The loop of isObjOfHelper over the keys that are left, with the object as
\* the deletions made so far have left it
RECURSIVE isObjOfLoop(_, _, _, _, _, _, _, _)
isObjOfLoop(exact, obj, keys, requiredFields, optionalFields, required, len, maps) ==
  IF keys = <<>>
  THEN [res |-> required = 0 /\ (len = 0 \/ ~exact), obj |-> obj, err |-> "none"]
  ELSE LET fieldName == Head(keys)
           theVal == ObjectGet(obj, fieldName)
       IN IF theVal = Undefined \/ theVal = Null
          THEN isObjOfLoop(exact, ObjectDelete(obj, fieldName), Tail(keys),
                           requiredFields, optionalFields, required, len - 1, maps)
          ELSE IF HasCheckerField(optionalFields, fieldName)
          THEN LET checker == CheckerOf(optionalFields, fieldName)
               IN IF CheckerThrows(checker, theVal)
                  THEN [res |-> FALSE, obj |-> obj, err |-> "TypeError"]
                  ELSE IF ~FieldChecker(checker, theVal, maps)
                  THEN [res |-> FALSE, obj |-> obj, err |-> "none"]
                  ELSE isObjOfLoop(exact, obj, Tail(keys), requiredFields,
                                   optionalFields, required, len - 1, maps)
          ELSE IF HasCheckerField(requiredFields, fieldName)
          THEN LET fieldTypeChecker == CheckerOf(requiredFields, fieldName)
               IN IF CheckerThrows(fieldTypeChecker, theVal)
                  THEN [res |-> FALSE, obj |-> obj, err |-> "TypeError"]
                  ELSE IF ~FieldChecker(fieldTypeChecker, theVal, maps)
                  THEN [res |-> FALSE, obj |-> obj, err |-> "none"]
                  ELSE isObjOfLoop(exact, obj, Tail(keys), requiredFields,
                                   optionalFields, required - 1, len - 1, maps)
          ELSE isObjOfLoop(exact, obj, Tail(keys), requiredFields,
                           optionalFields, required, len, maps)

\* isObjOfHelper(exact, obj, requiredFields, optionalFields): what it returns
\* (res), the object it was given as the call leaves it (obj), and the
\* exception it threw instead of returning (err, "none" when it returned)
isObjOfHelper(exact, obj, requiredFields, optionalFields, maps) ==
  IF ~isObjectNonNull(obj) THEN [res |-> FALSE, obj |-> obj, err |-> "none"]
  ELSE isObjOfLoop(exact, obj, ObjectKeys(obj), requiredFields, optionalFields,
                   Cardinality(DOMAIN requiredFields), Len(ObjectKeys(obj)), maps)

isObjectOfExactType(obj, requiredFields, optionalFields, maps) ==
  isObjOfHelper(TRUE, obj, requiredFields, optionalFields, maps)

isObjectOfType(obj, requiredFields, optionalFields, maps) ==
  isObjOfHelper(FALSE, obj, requiredFields, optionalFields, maps)

\* asSimpleObject handing an array back as it is
RECURSIVE asSimpleObject_KeepsArray(_, _)
asSimpleObject_KeepsArray(x, def) ==
  IF x.k = "null" \/ isString(x) \/ isNumber(x) \/ isBoolean(x) THEN x
  ELSE IF isArray(x) THEN x
  ELSE IF isObjectNonNull(x)
  THEN Plain([i \in 1..Len(ObjectKeys(x)) |->
                <<ObjectKeys(x)[i],
                  asSimpleObject_KeepsArray(ObjectGet(x, ObjectKeys(x)[i]), Null)>>])
  ELSE def

\* asSimpleObject(x, def): a primitive of the tree as it is, an array without
\* its elements that are not simple, any other object as a new record of
\* its own enumerable string keys, each converted with the default null
RECURSIVE asSimpleObject(_, _)
asSimpleObject(x, def) ==
  IF x.k = "null" \/ isString(x) \/ isNumber(x) \/ isBoolean(x) THEN x
  ELSE IF isArray(x)
  THEN Arr(SelectSeq(x.items, LAMBDA val : isSimpleObject(val)))
  ELSE IF isObjectNonNull(x)
  THEN Plain([i \in 1..Len(ObjectKeys(x)) |->
                <<ObjectKeys(x)[i],
                  asSimpleObject(ObjectGet(x, ObjectKeys(x)[i]), Null)>>])
  ELSE def

\* The required fields registerPickling asks for
RegistryFields ==
  [f \in {"to", "from"} |-> "chkMapOf(chkOneOf(isSymbol, isString), isFunction)"]
NoFields == [f \in {} |-> "isString"]

\* registerPickling rejecting a slot that is taken, whatever it holds
registerPickling_RejectsTaken(inBrowser, hostSlot, maps) ==
  IF hostSlot = Absent
  THEN [result |-> IF inBrowser THEN "DomSuccess" ELSE "NodeSuccess",
        slot |-> RegistrySlot]
  ELSE [result |-> IF inBrowser THEN "DomFail" ELSE "NodeFail", slot |-> hostSlot]

\* registerPickling() on the host object whose pickleKey field is hostSlot:
\* what it returns (result) and the field after the call (slot)
registerPickling(inBrowser, hostSlot, maps) ==
  IF hostSlot = Absent
  THEN [result |-> IF inBrowser THEN "DomSuccess" ELSE "NodeSuccess",
        slot |-> RegistrySlot]
  ELSE LET chk == isObjectOfType(hostSlot, RegistryFields, NoFields, maps)
       IN IF chk.err # "none"
          THEN [result |-> chk.err, slot |-> chk.obj]
          ELSE IF ~chk.res
          THEN [result |-> IF inBrowser THEN "DomFail" ELSE "NodeFail",
                slot |-> chk.obj]
          ELSE [result |-> IF inBrowser THEN "DomAlready" ELSE "NodeAlready",
                slot |-> chk.obj]

\* The switch at module load throws for DomFail and NodeFail, and an
\* exception of registerPickling() ends the load as well: the module's
\* exports exist only after a load that did not throw
LoadThrew == load \in {"DomFail", "NodeFail", "TypeError"}
Loaded == load \in {"DomSuccess", "DomAlready", "NodeSuccess", "NodeAlready"}

-----------------------------------------------------------------------------
(* The values, texts and registrations the callers of the model use *)

LocalTag == LocalSymbol(1)

\* A value tagged with a locally created symbol, with and without a toJSON
LocalTagged == Obj(<<<<"value1", Str("a")>>>>, LocalTag, "MyTestThingy")
LocalTaggedNoJSON == Obj(<<<<"value1", Str("a")>>>>, LocalTag, "none")
\* An object whose toJSON result does not show the symbol it holds
HidesSymbol == Obj(<<<<"secret", LocalSymbol(2)>>>>, NoTag, "MyTestThingy")
\* Plain records that have the two fields of an envelope
LooksLikeSet == MakeFlat("freik.Set", Arr(<<Str("a"), Str("a")>>))
LooksLikeBigInt == MakeFlat("freik.BigInt", Str("01"))

Atoms ==
  { Null, Str("a"), Num(1), NaN, BigIntV(1), SymbolFor("pickler.Test"),
    LocalSymbol(2), DateV(0), RegExpV("a", "gi"),
    MakeType, MakeType2, MakeType3("hello", "world"),
    LocalTagged, LocalTaggedNoJSON, HidesSymbol, LooksLikeSet, LooksLikeBigInt }

\* One value inside each kind of container
Containers(elems) ==
  {SetV(<<x>>) : x \in elems} \cup {Arr(<<x>>) : x \in elems}
  \cup {Plain(<<<<"a", x>>>>) : x \in elems}
  \cup {MapV(<<<<x, Str("v")>>>>) : x \in elems}
  \cup {MapV(<<<<Str("k"), x>>>>) : x \in elems}

\* A container inside a mapping value, and inside a Set
Nested(elems) ==
  {Plain(<<<<"a", x>>>>) : x \in elems} \cup {SetV(<<x>>) : x \in elems}

\* Sets, arrays and Maps of up to MaxLen different elements
WideElems == {Str("a"), Null, NaN, DateV(0), BigIntV(1)}
\* The sequences of at most n elements of WideElems, none repeated
RECURSIVE SeqsUpTo(_)
SeqsUpTo(n) ==
  IF n = 0 THEN {<<>>}
  ELSE LET shorter == SeqsUpTo(n - 1)
       IN shorter \cup
          UNION {{Append(q, x) : x \in WideElems \ Range(q)} :
                   q \in {r \in shorter : Len(r) = n - 1}}
WideSeqs == {q \in SeqsUpTo(MaxLen) : Len(q) >= 2}
WideValues ==
  {SetV(q) : q \in WideSeqs} \cup {Arr(q) : q \in WideSeqs}
  \cup {MapV([i \in 1..Len(q) |-> <<q[i], Str("v")>>]) : q \in WideSeqs}

\* A Set of two strings in a list
WireExample == Arr(<<SetV(<<Str("a"), Str("b")>>)>>)

\* Plain trees: a list of every primitive, a record in a list in a record,
\* and a record that has one of the two fields of an envelope
OneReservedField == Plain(<<<<DataType, Str("pickler.Test")>>, <<"n", Num(1)>>>>)
PlainTrees ==
  { Arr(<<Bool(TRUE), Null, Str("a"), Num(1)>>),
    Plain(<<<<"a", Arr(<<Plain(<<<<"b", Bool(FALSE)>>>>)>>)>>, <<"c", Num(0)>>>>),
    OneReservedField }

\* Iterable objects: of two strings, of a Set, and one held in a field
Iterables ==
  { Iter(<<Str("a"), Str("b")>>), Iter(<<SetV(<<Str("a")>>)>>),
    Plain(<<<<"a", Iter(<<Num(1)>>)>>>>) }

Values ==
  Atoms \cup Containers(Atoms) \cup Nested(Containers(Atoms)) \cup WideValues
  \cup {WireExample, TaggedSet(<<Str("a")>>, Test3Symbol),
        TaggedSet(<<Str("a")>>, Test2Symbol)}
  \cup Iterables \cup PlainTrees

\* Texts that no Pickle call of the model wrote
JEnvelope(name, payload) == JObj(<<<<DataType, JStr(name)>>, <<DataValue, payload>>>>)
JRegExp(source, flags) ==
  JEnvelope("freik.RegExp", JObj(<<<<"source", JStr(source)>>, <<"flags", JStr(flags)>>>>))

RootTexts ==
  { JEnvelope("unknown.Tag", JNum(1)),
    JEnvelope("pickler.Test3", JObj(<<<<"value1", JStr("x")>>>>)),
    JEnvelope("pickler.Test3",
              JObj(<<<<"value1", JStr("hello")>>, <<"value2", JStr("world")>>>>)),
    JEnvelope("pickler.Test3",
              JObj(<<<<"value1", JStr("hello")>>, <<"value2", JStr("world")>>,
                     <<"n", JEnvelope("freik.BigInt", JStr("1"))>>>>)),
    JEnvelope("pickler.Test", JStr("My Test Thingy")),
    JRegExp("(", ""), JRegExp("a", "zz"), JRegExp("a", "ig"),
    JEnvelope("freik.RegExp", JNum(1)),
    JEnvelope("freik.Map", JArr(<<JNum(1)>>)),
    JEnvelope("freik.Map", JStr("x")),
    JEnvelope("freik.Set", JNum(1)),
    JEnvelope("freik.BigInt", JStr("abc")),
    JEnvelope("freik.BigInt", JStr("")),
    JEnvelope("freik.BigInt", JStr("0x1")),
    JEnvelope("freik.BigInt", JNum(1)),
    JEnvelope("freik.Date", JStr("garbage")),
    JEnvelope("freik.Date", JNum(1)),
    JEnvelope("freik.Symbol", JNum(1)),
    JObj(<<<<DataType, JNum(1)>>, <<DataValue, JNum(1)>>>>),
    JObj(<<<<DataType, JStr("freik.Set")>>>>) }

Texts ==
  {Malformed} \cup RootTexts \cup {JArr(<<t>>) : t \in RootTexts}
  \cup {JObj(<<<<"a", t>>>>) : t \in RootTexts}

Predicates == {"isSet", "isObjectNonNull", "chkCustomType(Test3Symbol)"}

\* The RegisterForPickling calls: those of the test suite, one that
\* registers a codec for a locally created symbol, one that registers
\* another decoder for Test2Symbol and no encoder, and one that registers
\* an encoder for Test3Symbol as well
Registrations ==
  { <<TestSymbol, "TestUnpickle", "none">>,
    <<Test2Symbol, "Test2Unpickle", "Test2Pickle">>,
    <<Test3Symbol, "Type3Unpickle", "none">>,
    <<LocalTag, "TestUnpickle", "Test2Pickle">>,
    <<Test2Symbol, "Test2UnpickleB", "none">>,
    <<Test3Symbol, "Type3Unpickle", "Type3Pickle">> }

-----------------------------------------------------------------------------
(* The state machine.  The registry is the program's state; pin .. rout are  *)
(* the results the caller of one test holds.                                 *)

Init ==
  /\ browser = FALSE
  /\ slot = RegistrySlot
  /\ load = "NodeSuccess"
  /\ to = thePicklers
  /\ from = theUnpicklers
  /\ pin = None /\ pout = None
  /\ uin = None /\ uout = None
  /\ spred = "none" /\ sout = None
  /\ rout = None
  /\ call = NoCall /\ ret = None

\* const str = Pickle(v), the first call of a test
DoPickle(v) ==
  /\ Loaded
  /\ pin = None /\ uin = None
  /\ pin' = v
  /\ pout' = Pickle(to, v)
  /\ UNCHANGED <<call, ret, browser, slot, load, to, from, uin, uout, spred, sout, rout>>

\* const val = Unpickle(str) of the text Pickle returned
DoUnpickle ==
  /\ Loaded
  /\ pin # None /\ uin = None /\ ~IsThrow(pout)
  /\ uin' = pout
  /\ uout' = Unpickle(from, pout)
  /\ UNCHANGED <<call, ret, browser, slot, load, to, from, pin, pout, spred, sout, rout>>

\* Unpickle(text) of a text that came from elsewhere
DoUnpickleText(t) ==
  /\ Loaded
  /\ pin = None /\ uin = None
  /\ uin' = t
  /\ uout' = Unpickle(from, t)
  /\ UNCHANGED <<call, ret, browser, slot, load, to, from, pin, pout, spred, sout, rout>>

\* SafelyUnpickle(str, check) of the text that was unpickled
DoSafelyUnpickle(check) ==
  /\ Loaded
  /\ uin # None /\ spred = "none"
  /\ spred' = check
  /\ sout' = SafelyUnpickle(from, uin, check)
  /\ UNCHANGED <<call, ret, browser, slot, load, to, from, pin, pout, uin, uout, rout>>

\* const next = Pickle(val) of the unpickled value
DoRepickle ==
  /\ Loaded
  /\ uin # None /\ ~IsThrow(uout) /\ rout = None
  /\ rout' = Pickle(to, uout)
  /\ UNCHANGED <<call, ret, browser, slot, load, to, from, pin, pout, uin, uout, spred, sout>>

\* The test returns: its caller holds none of the results any more
TestReturns ==
  /\ Loaded
  /\ pin # None \/ uin # None
  /\ pin' = None /\ pout' = None /\ uin' = None /\ uout' = None
  /\ spred' = "none" /\ sout' = None /\ rout' = None
  /\ UNCHANGED <<call, ret, browser, slot, load, to, from>>

\* RegisterForPickling(tag, fromString, toString?), between two tests
DoRegister(r) ==
  /\ Loaded
  /\ pin = None /\ uin = None
  /\ to' = RegisterForPickling(to, from, r[1], r[2], r[3])[1]
  /\ from' = RegisterForPickling(to, from, r[1], r[2], r[3])[2]
  /\ UNCHANGED <<call, ret, browser, slot, load, pin, pout, uin, uout, spred, sout, rout>>

Next ==
  \/ \E v \in Values : DoPickle(v)
  \/ DoUnpickle
  \/ \E t \in Texts : DoUnpickleText(t)
  \/ \E c \in Predicates : DoSafelyUnpickle(c)
  \/ DoRepickle
  \/ TestReturns
  \/ \E r \in Registrations : DoRegister(r)

-----------------------------------------------------------------------------
(* The module load.  The slot may be taken before the module loads: by an   *)
(* earlier load of another copy of the module, or by something else.        *)

EmptyMap == [s \in {} |-> "none"]

\* What the host object's pickleKey field holds when the module loads, with
\* the entries of the Maps its fields to and from hold by reference.  The
\* module's own Maps, thePicklers and theUnpicklers, are those of the slot
\* when the load creates it.
Occupants ==
  { [slot |-> Absent, to |-> thePicklers, from |-> theUnpicklers],
    \* another copy of the module loaded before, and registered Test2
    [slot |-> RegistrySlot, to |-> thePicklers, from |-> theUnpicklers],
    [slot |-> RegistrySlot,
     to |-> setPickleHandler(thePicklers, Test2Symbol, "Test2Pickle"),
     from |-> setUnpickleHandler(theUnpicklers, Test2Symbol, "Test2Unpickle")],
    \* something else made an object of the same shape
    [slot |-> RegistrySlot, to |-> EmptyMap, from |-> EmptyMap],
    [slot |-> RegistrySlot,
     to |-> (Str("freik.Set") :> "SetPickle"),
     from |-> (Str("freik.Set") :> "SetUnpickle")],
    [slot |-> Plain(<<<<"owner", Null>>, <<"to", MapRef("to")>>,
                      <<"from", MapRef("from")>>, <<"version", Num(1)>>>>),
     to |-> thePicklers, from |-> theUnpicklers],
    \* something of another shape
    [slot |-> Str("taken"), to |-> thePicklers, from |-> theUnpicklers],
    [slot |-> Undefined, to |-> thePicklers, from |-> theUnpicklers],
    [slot |-> Arr(<<>>), to |-> thePicklers, from |-> theUnpicklers],
    [slot |-> Plain(<<<<"to", MapRef("to")>>>>),
     to |-> thePicklers, from |-> theUnpicklers],
    [slot |-> Plain(<<<<"to", MapRef("to")>>, <<"from", Arr(<<>>)>>>>),
     to |-> thePicklers, from |-> theUnpicklers],
    [slot |-> Plain(<<<<"to", MapV(<<<<Num(1), Fn("f")>>>>)>>,
                      <<"from", MapRef("from")>>>>),
     to |-> thePicklers, from |-> theUnpicklers],
    [slot |-> Plain(<<<<"to", MapRef("to")>>,
                      <<"from", MapV(<<<<Str("k"), Str("v")>>>>)>>>>),
     to |-> thePicklers, from |-> theUnpicklers],
    [slot |-> Plain(<<<<"owner", Null>>, <<"to", Num(1)>>,
                      <<"from", MapRef("from")>>>>),
     to |-> thePicklers, from |-> theUnpicklers],
    \* a registry with a field named as a member of Object.prototype is
    [slot |-> Plain(<<<<"valueOf", Num(1)>>, <<"to", MapRef("to")>>,
                      <<"from", MapRef("from")>>>>),
     to |-> thePicklers, from |-> theUnpicklers] }

\* The values and texts of the callers after a module load
LoadValues ==
  {SetV(<<Str("a")>>), DateV(0), MakeType2, Str("a"), Iter(<<Str("a"), Str("b")>>)}
LoadTexts ==
  {Malformed, JEnvelope("freik.Set", JArr(<<JStr("a")>>)),
   JEnvelope("pickler.Test2", JStr("My Test2 Thingy"))}

\* Before the module is evaluated
LoadInit ==
  /\ browser \in BOOLEAN
  /\ \E o \in Occupants : slot = o.slot /\ to = o.to /\ from = o.from
  /\ load = "none"
  /\ pin = None /\ pout = None
  /\ uin = None /\ uout = None
  /\ spred = "none" /\ sout = None
  /\ rout = None
  /\ call = NoCall /\ ret = None

\* registerPickling(): the call of the module load, whose Fail result makes
\* the load throw, and any later call of the exported function
DoRegisterPickling ==
  /\ ~LoadThrew
  /\ pin = None /\ uin = None
  /\ LET r == registerPickling(browser, slot, [to |-> to, from |-> from])
     IN /\ load' = r.result
        /\ slot' = r.slot
        /\ to' = IF slot = Absent THEN thePicklers ELSE to
        /\ from' = IF slot = Absent THEN theUnpicklers ELSE from
  /\ UNCHANGED <<call, ret, browser, pin, pout, uin, uout, spred, sout, rout>>

LoadNext ==
  \/ DoRegisterPickling
  \/ \E v \in LoadValues : DoPickle(v)
  \/ DoUnpickle
  \/ \E t \in LoadTexts : DoUnpickleText(t)
  \/ \E c \in Predicates : DoSafelyUnpickle(c)
  \/ DoRepickle
  \/ TestReturns
  \/ \E r \in Registrations : DoRegister(r)

-----------------------------------------------------------------------------
(* The callers of the predicate library.  The functions of TypeChk.ts keep   *)
(* no state: a call reads its arguments and, where it deletes a field,       *)
(* changes the object it was given.                                          *)

\* The checkers of the test 'isObjectOf tests'
RequiredCheckers == [f \in {"a", "b"} |-> IF f = "a" THEN "isNumber" ELSE "isFunction"]
OptionalCheckers == [f \in {"c"} |-> "isSetOfString"]
AllOfCheckers ==
  [f \in {"a", "b", "c"} |->
     IF f = "c" THEN OptionalCheckers[f] ELSE RequiredCheckers[f]]

\* The pairs of required and optional checkers of the calls
CheckerPairs ==
  { <<RequiredCheckers, OptionalCheckers>>, <<RequiredCheckers, NoFields>>,
    <<AllOfCheckers, NoFields>> }

\* { a: 2, b: () => 0 } and the fields the objects of the calls add to it
TheOptionalType == <<<<"a", Num(2)>>, <<"b", Fn("f")>>>>
With(field, val) == Plain(Append(TheOptionalType, <<field, val>>))

\* The objects of that test, and objects with a field that holds null or
\* undefined, with a field named as a member of Object.prototype is, and
\* values that are no object
CheckedObjects ==
  { Plain(TheOptionalType),
    With("c", SetV(<<Str("a")>>)), With("c", SetV(<<Num(1), Num(2)>>)),
    With("c", Null), With("c", Undefined),
    With("d", Null), With("d", Str("")),
    Plain(<<<<"a", Num(2)>>, <<"b", Num(1)>>>>),
    Plain(<<<<"a", Num(2)>>, <<"c", SetV(<<Str("a"), Str("b")>>)>>>>),
    Plain(<<<<"a", Null>>, <<"b", Fn("f")>>>>),
    Plain(<<<<"a", NaN>>, <<"b", Fn("f")>>>>),
    Plain(<<<<"d", Str("")>>, <<"a", Num(2)>>, <<"b", Fn("f")>>, <<"e", Undefined>>>>),
    With("constructor", Str("x")), With("toString", Num(1)),
    With("valueOf", Num(1)), With("isPrototypeOf", Num(1)),
    Plain(<<>>), Arr(<<Num(2), Fn("f")>>), Null, Undefined, Str("a"), Fn("f") }

\* The arguments of asSimpleObject: those of the test 'is/asSimpleObject,
\* chk/isBothOf tests', and values of every other kind
SimpleArr == Arr(<<Null, Str("a"), Num(12), Bool(TRUE)>>)
Converted ==
  { SimpleArr, Arr(Append(SimpleArr.items, Fn("f"))),
    Plain(<<<<"a", SimpleArr>>, <<"b", Num(1)>>, <<"c", Null>>,
            <<"d", Bool(TRUE)>>, <<"e", Str("a")>>>>),
    Fn("f"), Null, Str("a"), Num(1), Bool(FALSE), Undefined, NaN, BigIntV(1),
    SymbolFor("pickler.Test"),
    Arr(<<NaN, Num(1)>>), Plain(<<<<"a", NaN>>>>),
    Arr(<<Arr(<<Fn("f")>>), Arr(<<Num(1)>>), Undefined, BigIntV(1)>>),
    Plain(<<<<"a", Arr(<<Num(1), Fn("f")>>)>>, <<"b", Undefined>>,
            <<"c", SetV(<<BigIntV(1)>>)>>, <<"d", Plain(<<<<"e", Fn("f")>>>>)>>>>),
    SetV(<<BigIntV(1)>>), MapV(<<<<Str("k"), Str("v")>>>>), DateV(0),
    RegExpV("a", "gi"), Iter(<<Str("a")>>),
    Arr(<<SetV(<<BigIntV(1)>>), DateV(0), MakeType>>),
    MakeType, MakeType2, MakeType3("hello", "world"),
    TaggedSet(<<Str("a")>>, Test3Symbol) }

Defaults == {Null, Str("default")}

\* isObjectOfType(obj, required, optional) and isObjectOfExactType(...)
DoIsObjectOfType(exact, obj, requiredFields, optionalFields) ==
  /\ Loaded
  /\ call = NoCall
  /\ call' = [fn |-> IF exact THEN "isObjectOfExactType" ELSE "isObjectOfType",
              obj |-> obj, requiredFields |-> requiredFields,
              optionalFields |-> optionalFields]
  /\ ret' = IF exact
            THEN isObjectOfExactType(obj, requiredFields, optionalFields,
                                     [to |-> to, from |-> from])
            ELSE isObjectOfType(obj, requiredFields, optionalFields,
                                [to |-> to, from |-> from])
  /\ UNCHANGED <<browser, slot, load, to, from, pin, pout, uin, uout, spred,
                 sout, rout>>

\* asSimpleObject(x, def)
DoAsSimpleObject(x, def) ==
  /\ Loaded
  /\ call = NoCall
  /\ call' = [fn |-> "asSimpleObject", x |-> x, def |-> def]
  /\ ret' = [val |-> asSimpleObject(x, def)]
  /\ UNCHANGED <<browser, slot, load, to, from, pin, pout, uin, uout, spred,
                 sout, rout>>

\* The caller drops the result
CallReturns ==
  /\ call # NoCall
  /\ call' = NoCall /\ ret' = None
  /\ UNCHANGED <<browser, slot, load, to, from, pin, pout, uin, uout, spred,
                 sout, rout>>

ChkNext ==
  \/ \E exact \in BOOLEAN, obj \in CheckedObjects, c \in CheckerPairs :
       DoIsObjectOfType(exact, obj, c[1], c[2])
  \/ \E x \in Converted, def \in Defaults : DoAsSimpleObject(x, def)
  \/ CallReturns

-----------------------------------------------------------------------------
(* Vocabulary of the claims *)

\* Deep equality.  A value of the model is its own structure (a Date its
\* timestamp, a BigInt its number, a Set its elements in order), so two
\* values are deep-equal when they are the same value of the model.
DeepEqual(a, b) == a = b

\* The caller pickled a value and unpickled the text it got
RoundTripDone == pin # None /\ uin = pout /\ uout # None

\* The values the round-trip law is about: the built-in types and plain
\* trees, with nothing the tree-text cannot carry (NaN, a symbol without a
\* key), no custom-type marker, no toJSON and no reserved envelope field
RECURSIVE Supported(_)
Supported(v) ==
  CASE v.k \in {"null", "boolean", "number", "string", "bigint", "regexp"} -> TRUE
    [] v.k = "symbol" -> KeyFor(v) # Undefined
    [] v.k = "date" -> v # InvalidDate
    [] v.k \in {"array", "set"} ->
         /\ "tag" \notin DOMAIN v
         /\ \A i \in 1..Len(v.items) : Supported(v.items[i])
    [] v.k = "map" ->
         \A i \in 1..Len(v.entries) :
           Supported(v.entries[i][1]) /\ Supported(v.entries[i][2])
    [] v.k = "object" ->
         /\ v.tag = NoTag /\ v.toJSON = "none"
         /\ DataType \notin Range(FieldKeys(v))
         /\ \A i \in 1..Len(v.fields) : Supported(v.fields[i][2])
    [] OTHER -> FALSE

BuiltInTyped(v) == v.k \in {"map", "set", "date", "regexp", "bigint"}

\* C1 (as claimed): for every value v of a built-in type (Map, Set, Date,
\* RegExp, BigInt), also a Map or Set whose keys and elements are BigInts,
\* Symbols, Dates or plain trees, Unpickle(Pickle(v)) is deep-equal to v and of
\* the same type.
C1_RoundTripLaw ==
  (RoundTripDone /\ BuiltInTyped(pin) /\ Supported(pin))
    => (DeepEqual(uout, pin) /\ uout.k = pin.k)

\* The elements of a Set and the keys and values of a Map
Elements(c) ==
  IF c.k = "set" THEN Range(c.items)
  ELSE {c.entries[i][1] : i \in 1..Len(c.entries)}
       \cup {c.entries[i][2] : i \in 1..Len(c.entries)}

\* A Set or Map one of whose elements is of a type that is pickled as an
\* envelope, inside a mapping value
NestedTagged(v) ==
  /\ v.k = "object" /\ Len(v.fields) = 1 /\ v.tag = NoTag /\ v.toJSON = "none"
  /\ LET c == v.fields[1][2]
     IN /\ c.k \in {"set", "map"} /\ Supported(c)
        /\ \E e \in Elements(c) :
             e.k \in {"date", "regexp", "bigint", "symbol", "set", "map"}

\* C8 (as claimed): a Set or Map whose elements are themselves tagged values,
\* placed inside a mapping value, is unpickled as a Set or Map again with
\* every element of its original type.
C8_NestedComposition ==
  (RoundTripDone /\ NestedTagged(pin)) => DeepEqual(uout, pin)

\* C1 and C8 fail on the same input shape: a Set of one BigInt was pickled
\* and came back as the plain envelope record
SetOfBigIntDegraded ==
  /\ RoundTripDone /\ pin = SetV(<<BigIntV(1)>>)
  /\ uout = MakeFlat("freik.Set", Arr(<<BigIntV(1)>>))

-----------------------------------------------------------------------------
(* C2: re-pickling *)

RepickleDone == RoundTripDone /\ rout # None

\* C2 (as claimed): for all values v that Pickle accepts,
\* Pickle(Unpickle(Pickle(v))) is the same text as Pickle(v).
C2_RepickleAnyValue == RepickleDone => rout = pout

\* No plain record of v has the reserved field @dataType
RECURSIVE NoReservedField(_)
NoReservedField(v) ==
  CASE v.k \in {"array", "set"} -> \A i \in 1..Len(v.items) : NoReservedField(v.items[i])
    [] v.k = "map" ->
         \A i \in 1..Len(v.entries) :
           NoReservedField(v.entries[i][1]) /\ NoReservedField(v.entries[i][2])
    [] v.k = "object" ->
         /\ DataType \notin Range(FieldKeys(v))
         /\ \A i \in 1..Len(v.fields) : NoReservedField(v.fields[i][2])
    [] OTHER -> TRUE

\* No Set of v has two elements, and no Map two keys, that are written as
\* the same text
AllDifferent(texts) ==
  \A i, j \in 1..Len(texts) : i # j => texts[i] # texts[j]
RECURSIVE NoCollision(_, _)
NoCollision(picklers, v) ==
  CASE v.k = "array" -> \A i \in 1..Len(v.items) : NoCollision(picklers, v.items[i])
    [] v.k = "set" ->
         /\ \A i \in 1..Len(v.items) : NoCollision(picklers, v.items[i])
         /\ AllDifferent([i \in 1..Len(v.items) |->
                            SerializeJSONProperty(picklers, v.items[i])])
    [] v.k = "map" ->
         /\ \A i \in 1..Len(v.entries) :
              NoCollision(picklers, v.entries[i][1])
              /\ NoCollision(picklers, v.entries[i][2])
         /\ AllDifferent([i \in 1..Len(v.entries) |->
                            SerializeJSONProperty(picklers, v.entries[i][1])])
    [] v.k = "object" -> \A i \in 1..Len(v.fields) : NoCollision(picklers, v.fields[i][2])
    [] OTHER -> TRUE

\* C2 (amended): for all values v that Pickle accepts, in which no plain
\* record has the reserved field @dataType and no Set or Map holds two
\* elements or keys that are written as the same text,
\* Pickle(Unpickle(Pickle(v))) is the same text as Pickle(v), with only the
\* built-in entries and with the custom entries of the test suite registered.
C2_RepickleStable ==
  (RepickleDone /\ NoReservedField(pin) /\ NoCollision(to, pin)) => rout = pout

\* A Set of two elements and a value of a registered custom type were
\* re-pickled to the text they were pickled to
C2_Witness ==
  /\ RepickleDone /\ rout = pout
  /\ \/ pin.k = "set" /\ Len(pin.items) = 2 /\ uout.k = "set"
     \/ pin = MakeType2 /\ getPickleHandler(to, Test2Symbol) = "Test2Pickle"

-----------------------------------------------------------------------------
(* C3: a custom-type marker with no codec *)

\* The value carries a marker with a string key for which neither an
\* encoder nor a decoder is registered, and has a toJSON
UnknownTagged(v) ==
  /\ hasTypeTag(v) /\ KeyFor(v.tag) # Undefined
  /\ getPickleHandler(to, v.tag) = "none"
  /\ getUnpickleHandler(from, v.tag) = "none"
  /\ hasToJSON(v)

\* The envelope record of such a value
EnvelopeRecord(v) == MakeFlat(KeyFor(v.tag).s, CallToJSON(v))

-----------------------------------------------------------------------------
(* C4, C5, C6: Unpickle of a text *)

IsEnvelopeText(t) ==
  /\ t.k = "jobj" /\ Len(t.members) = 2
  /\ t.members[1][1] = DataType /\ t.members[1][2].k = "jstr"
  /\ t.members[2][1] = DataValue

\* The envelope text names no registered decoder, or names one that returns
\* undefined for the payload (as revived)
Degrades(t) ==
  LET name == t.members[1][2].s
      payload == InternalizeJSONProperty(from, t.members[2][2])
      decoder == getUnpickler(from, name)
  IN /\ ~IsThrow(payload)
     /\ isSimpleObject(payload)
     /\ \/ decoder = "none"
        \/ ApplyFromFlat(decoder, payload) = Undefined

PlainEnvelope(t) ==
  MakeFlat(t.members[1][2].s, InternalizeJSONProperty(from, t.members[2][2]))

\* C4: when the reviver meets an envelope whose tag string has no registered
\* decoder, or whose registered decoder returns undefined for the payload,
\* the envelope is returned unchanged as a plain record and no error is
\* raised: at the root, as the element of an array and as a field.
C4_DecodeDegradation ==
  (uin # None /\ uout # None) =>
    /\ (IsEnvelopeText(uin) /\ Degrades(uin)) => uout = PlainEnvelope(uin)
    /\ (uin.k = "jarr" /\ Len(uin.elems) = 1 /\ IsEnvelopeText(uin.elems[1])
          /\ Degrades(uin.elems[1]))
         => uout = Arr(<<PlainEnvelope(uin.elems[1])>>)
    /\ (uin.k = "jobj" /\ Len(uin.members) = 1 /\ IsEnvelopeText(uin.members[1][2])
          /\ Degrades(uin.members[1][2]))
         => uout = Plain(<<<<uin.members[1][1], PlainEnvelope(uin.members[1][2])>>>>)

\* The decoder registered for pickler.Test3 returned undefined for a payload
\* without the field value2, and the envelope came back as a plain record
C4_Witness ==
  /\ uin = JEnvelope("pickler.Test3", JObj(<<<<"value1", JStr("x")>>>>))
  /\ getUnpickler(from, "pickler.Test3") = "Type3Unpickle"
  /\ uout = MakeFlat("pickler.Test3", Plain(<<<<"value1", Str("x")>>>>))

OnlyBuiltIns == to = thePicklers /\ from = theUnpicklers

\* C5 (as claimed): for every syntactically valid text, also one whose
\* envelopes carry a built-in tag with a malformed payload, Unpickle with
\* only the built-in decoders registered returns a value and raises no error.
C5_UnpickleNeverThrows ==
  (uin # None /\ IsText(uin) /\ OnlyBuiltIns) => ~IsThrow(uout)

\* C6: Unpickle and SafelyUnpickle of a text that is not syntactically valid
\* raise the parse error to the caller (they return neither a value nor
\* undefined), and the step leaves the registry unchanged.
C6_MalformedTextRaises ==
  /\ [](uin = Malformed =>
          /\ uout = Throw("SyntaxError")
          /\ spred # "none" => sout = Throw("SyntaxError"))
  /\ [][uin' = Malformed => (to' = to /\ from' = from)]_vars

C6_Witness ==
  uin = Malformed /\ uout = Throw("SyntaxError") /\ spred = "isSet"
  /\ sout = Throw("SyntaxError")

-----------------------------------------------------------------------------
(* C7: SafelyUnpickle *)

C7_WitnessAccepted ==
  /\ RoundTripDone /\ pin.k = "set" /\ uout = pin
  /\ spred = "isSet" /\ sout = pin

-----------------------------------------------------------------------------
(* C9, C10: symbols without a key *)

IsLocalSymbol(v) == v.k = "symbol" /\ KeyFor(v) = Undefined

\* The value is, or holds in an element, a key, a value or a field, a symbol
\* without a key
RECURSIVE ContainsLocalSymbol(_)
ContainsLocalSymbol(v) ==
  CASE v.k = "symbol" -> IsLocalSymbol(v)
    [] v.k \in {"array", "set"} ->
         \E i \in 1..Len(v.items) : ContainsLocalSymbol(v.items[i])
    [] v.k = "map" ->
         \E i \in 1..Len(v.entries) :
           ContainsLocalSymbol(v.entries[i][1]) \/ ContainsLocalSymbol(v.entries[i][2])
    [] v.k = "object" -> \E i \in 1..Len(v.fields) : ContainsLocalSymbol(v.fields[i][2])
    [] OTHER -> FALSE

\* The same, looking only into the fields of objects that have neither a
\* toJSON nor a custom-type marker
RECURSIVE ShowsLocalSymbol(_)
ShowsLocalSymbol(v) ==
  CASE v.k = "symbol" -> IsLocalSymbol(v)
    [] v.k \in {"array", "set"} ->
         \E i \in 1..Len(v.items) : ShowsLocalSymbol(v.items[i])
    [] v.k = "map" ->
         \E i \in 1..Len(v.entries) :
           ShowsLocalSymbol(v.entries[i][1]) \/ ShowsLocalSymbol(v.entries[i][2])
    [] v.k = "object" ->
         /\ v.tag = NoTag /\ v.toJSON = "none"
         /\ \E i \in 1..Len(v.fields) : ShowsLocalSymbol(v.fields[i][2])
    [] OTHER -> FALSE

C10_LocalMarkerThrows ==
  (pin # None /\ hasTypeTag(pin) /\ IsLocalSymbol(pin.tag)) => IsThrow(pout)

-----------------------------------------------------------------------------
(* C11: a decoder registered without an encoder *)

\* The envelope text t names a tag registered with a decoder and no encoder,
\* and that decoder returns a value for the payload (as revived)
DecodeOnly(t) ==
  LET name == t.members[1][2].s
      payload == InternalizeJSONProperty(from, t.members[2][2])
      decoder == getUnpickler(from, name)
  IN /\ decoder # "none"
     /\ getPickleHandler(to, SymbolFor(name)) = "none"
     /\ ~IsThrow(payload)
     /\ ApplyFromFlat(decoder, payload) # Undefined

Decoded(t) ==
  ApplyFromFlat(getUnpickler(from, t.members[1][2].s),
                InternalizeJSONProperty(from, t.members[2][2]))

\* C11 (as claimed): after RegisterForPickling(tag, decode) with no encoder,
\* every Unpickle of a text containing an envelope whose tag string is the
\* tag's key returns decode(payload) at that node whenever decode(payload)
\* is defined; while the tag has no decoder the same text unpickles to the
\* plain envelope record.
C11_RegisteredDecoderDecodes ==
  (uin # None /\ uout # None) =>
    /\ (IsEnvelopeText(uin) /\ DecodeOnly(uin)) => uout = Decoded(uin)
    /\ (uin.k = "jarr" /\ Len(uin.elems) = 1 /\ IsEnvelopeText(uin.elems[1])
          /\ DecodeOnly(uin.elems[1]))
         => uout = Arr(<<Decoded(uin.elems[1])>>)
    /\ (IsEnvelopeText(uin) /\ getUnpickler(from, uin.members[1][2].s) = "none"
          /\ ~IsThrow(InternalizeJSONProperty(from, uin.members[2][2])))
         => uout = PlainEnvelope(uin)

-----------------------------------------------------------------------------
(* C12: what a registration changes *)

\* The entry of a registry map for a tag ("none": no entry)
Entry(registry, tag) == IF tag \in DOMAIN registry THEN registry[tag] ELSE "none"

AllTags == DOMAIN to \cup DOMAIN from \cup DOMAIN to' \cup DOMAIN from'

\* C12: RegisterForPickling(tag, decode, encode?) always sets the decode
\* entry for tag to decode; it sets the encode entry for tag only when encode
\* is supplied; when encode is omitted the existing encode entry for tag (if
\* any) is left unchanged, and in all cases the encode and decode entries of
\* every other tag are left unchanged.
C12_RegisterFrame ==
  [][\A r \in Registrations :
       DoRegister(r) =>
         /\ Entry(from', r[1]) = r[2]
         /\ r[3] # "none" => Entry(to', r[1]) = r[3]
         /\ r[3] = "none" => Entry(to', r[1]) = Entry(to, r[1])
         /\ \A s \in AllTags \ {r[1]} :
              Entry(to', s) = Entry(to, s) /\ Entry(from', s) = Entry(from, s)]_vars

\* A decoder was registered without an encoder for a tag that has no encoder,
\* and for one that has: the first has no encoder still, the second kept its
C12_Witness ==
  /\ Entry(from, TestSymbol) = "TestUnpickle" /\ Entry(to, TestSymbol) = "none"
  /\ Entry(from, Test2Symbol) = "Test2UnpickleB"
  /\ Entry(to, Test2Symbol) = "Test2Pickle"

-----------------------------------------------------------------------------
(* C13: the registry only grows *)

\* The step is a Pickle, Unpickle or SafelyUnpickle call of the caller
ApiCall == pin' # pin \/ uin' # uin \/ spred' # spred \/ rout' # rout

\* C13: across any sequence of Pickle, Unpickle, SafelyUnpickle,
\* registerPickling and RegisterForPickling calls, the set of tags with an
\* encode entry and the set of tags with a decode entry never lose a member,
\* and Pickle, Unpickle and SafelyUnpickle never modify the registry.
C13_RegistryMonotone ==
  [][/\ DOMAIN to \subseteq DOMAIN to'
     /\ DOMAIN from \subseteq DOMAIN from'
     /\ ApiCall => (to' = to /\ from' = from)]_vars

\* After a load that found the slot taken, a registration and a round trip,
\* the registry has the entries it had and the new one
C13_Witness ==
  /\ load \in {"NodeAlready", "DomAlready"}
  /\ Test3Symbol \in DOMAIN from /\ SetTag \in DOMAIN from /\ SetTag \in DOMAIN to
  /\ pin # None /\ uout # None

-----------------------------------------------------------------------------
(* C14, C15: the module load *)

BuiltInTags == {MapTag, SetTag, SymbolTag, RegexTag, DateTag, BigIntTag}

\* C14 (as claimed): whenever module initialisation completes without
\* raising (the slot was absent, or was occupied by a value that passes the
\* shape check), the registry used by Pickle and Unpickle has an encode and
\* a decode entry for each of the six built-in tags, in every later state.
C14_BuiltInSeeding ==
  Loaded => \A tag \in BuiltInTags : tag \in DOMAIN to /\ tag \in DOMAIN from

\* The value is a Map keyed by symbols or strings with function values
\* (the entries of a registry Map are a symbol or string and a handler)
IsHandlerMap(v) ==
  /\ v.k = "map"
  /\ "entries" \in DOMAIN v =>
       \A i \in 1..Len(v.entries) :
         /\ v.entries[i][1].k \in {"symbol", "string"}
         /\ v.entries[i][2].k = "function"

\* The slot holds an object with 'to' and 'from' Maps of that kind
HoldsRegistry(s) ==
  /\ s.k = "object"
  /\ \E i \in 1..Len(s.fields) : s.fields[i][1] = "to" /\ IsHandlerMap(s.fields[i][2])
  /\ \E i \in 1..Len(s.fields) : s.fields[i][1] = "from" /\ IsHandlerMap(s.fields[i][2])

\* The slot holds the object it held: none of its fields was given another
\* value, and no field that held a value is gone
NotReplaced(old, new) ==
  IF old.k = "object"
  THEN /\ new.k = "object"
       /\ Range(new.fields) \subseteq Range(old.fields)
       /\ \A f \in Range(old.fields) :
            f[2] \notin {Null, Undefined} => f \in Range(new.fields)
  ELSE new = old

\* C15 (as claimed): at module load, if the slot is absent it is created (Success); if it
\* holds an object with 'to' and 'from' Maps keyed by symbol/string with
\* function values it is reused without being replaced (Already); if it
\* exists with any other shape the load raises a fatal error (Fail) and the
\* slot is not overwritten.
C15_LoadOutcome ==
  [][(load = "none" /\ load' # "none") =>
       /\ slot = Absent =>
            /\ load' \in {"DomSuccess", "NodeSuccess"} /\ Loaded'
            /\ slot' = RegistrySlot /\ to' = thePicklers /\ from' = theUnpicklers
       /\ (slot # Absent /\ HoldsRegistry(slot)) =>
            /\ load' \in {"DomAlready", "NodeAlready"} /\ Loaded'
            /\ NotReplaced(slot, slot') /\ to' = to /\ from' = from
       /\ (slot # Absent /\ ~HoldsRegistry(slot)) =>
            /\ load' \in {"DomFail", "NodeFail"} /\ LoadThrew'
            /\ NotReplaced(slot, slot') /\ to' = to /\ from' = from]_vars

-----------------------------------------------------------------------------
(* C16: the wire format *)

\* C16 (as claimed): the envelope Pickle writes is a two-field record whose
\* field names are exactly typeTag and typeValue and whose tag value is the
\* tag's string key: Pickle([new Set(['a','b'])]) is the text
\* [{"typeTag":"freik.Set","typeValue":["a","b"]}].
C16_WireFormat ==
  (pin = WireExample /\ pout # None) =>
    pout = JArr(<<JObj(<<<<"typeTag", JStr("freik.Set")>>,
                         <<"typeValue", JArr(<<JStr("a"), JStr("b")>>)>>>>)>>)

-----------------------------------------------------------------------------
(* C17: a custom-type marker and the built-in types *)

BuiltInKeys ==
  {"freik.Map", "freik.Set", "freik.Symbol", "freik.RegExp", "freik.Date",
   "freik.BigInt"}

\* C17 (as claimed): for every value that carries a symbol-valued
\* FreikTypeTag field and also satisfies a built-in predicate, Pickle never
\* writes an envelope tagged with the built-in tag, whether or not an encoder
\* is registered for the marker's tag or the value has a toJSON method.
C17_MarkerWins ==
  (pin # None /\ hasTypeTag(pin) /\ (isMap(pin) \/ isSet(pin))) =>
    ~(IsEnvelopeText(pout) /\ pout.members[1][2].s \in BuiltInKeys)

-----------------------------------------------------------------------------
(* C18: the predicates and their argument *)

\* C18 (as claimed): a predicate of the library returns a boolean and leaves
\* its argument unchanged (no field of the checked object is added, removed
\* or modified): the object in the slot is, after the chkObjectOfType check
\* of the module load, as it was before.
C18_PredicateLeavesArgument ==
  [][(load = "none" /\ load' # "none" /\ slot # Absent) => slot' = slot]_vars

-----------------------------------------------------------------------------
(* C19: a lookup reads the registry as it is *)

Test2Text == JEnvelope("pickler.Test2", JStr("My Test2 Thingy"))

\* C19: every encode or decode lookup made by Pickle and Unpickle reads the
\* registry as it is at that moment: a call made after a registration uses
\* the handler it registered (Pickle of a Test2 value writes the Test2
\* envelope once the encoder is registered, and no envelope before), and a
\* registration that overwrites the decoder of a tag changes the result of
\* the later lookups of that tag.
C19_LookupSeesRegistry ==
  /\ (pin = MakeType2 /\ pout # None) =>
       IF Entry(to, Test2Symbol) = "Test2Pickle" THEN pout = Test2Text
       ELSE ~IsEnvelopeText(pout)
  /\ (uin = Test2Text /\ uout # None) =>
       CASE Entry(from, Test2Symbol) = "Test2Unpickle" -> uout = MakeType2
         [] Entry(from, Test2Symbol) = "Test2UnpickleB" -> uout = MakeType2B
         [] OTHER -> uout = PlainEnvelope(uin)

\* The decoder of Test2Symbol was registered with an encoder and then
\* overwritten; a value pickled and unpickled after that was made by the
\* second decoder
C19_Witness ==
  /\ Entry(to, Test2Symbol) = "Test2Pickle"
  /\ Entry(from, Test2Symbol) = "Test2UnpickleB"
  /\ pin = MakeType2 /\ pout = Test2Text /\ uin = pout /\ uout = MakeType2B

-----------------------------------------------------------------------------
(* C20: a marker with a registered encoder *)

\* The value carries a marker that is a global symbol with an encoder
HasEncoder(v) ==
  hasTypeTag(v) /\ KeyFor(v.tag) # Undefined /\ Entry(to, v.tag) # "none"

\* The envelope of the marker's key and of what the encoder makes of v
EncodedBy(v) ==
  JEnvelope(KeyFor(v.tag).s, Pickle(to, ApplyToFlat(Entry(to, v.tag), v)))

-----------------------------------------------------------------------------
(* C21: an iterable that has no encoder *)

\* The texts of the items of a list, an item with nothing to write as null
ItemTexts(picklers, items) ==
  JArr([i \in 1..Len(items) |->
          LET text == SerializeJSONProperty(picklers, items[i])
          IN IF text = Undefined THEN JNull ELSE text])

\* C21 (as claimed): a value that has no applicable custom or built-in
\* encoder but is iterable is written as the ordered list of the items one
\* iteration of it yields, with no envelope and no tag; a Map or a Set is
\* never written by this step, because the built-in match is tried first.
C21_IterableStep ==
  (pin # None /\ ~IsThrow(pout)) =>
    /\ (isIterable(pin) /\ getPickler(to, pin) = NoPickler)
         => pout = ItemTexts(to, Spread(pin).items)
    /\ (isMap(pin) \/ isSet(pin)) => pout.k # "jarr"

-----------------------------------------------------------------------------
(* C22: plain trees *)

\* The value is built only from strings, finite numbers, booleans, null,
\* arrays and string-keyed plain objects
RECURSIVE PlainTree(_)
PlainTree(v) ==
  CASE v.k \in {"null", "boolean", "number", "string"} -> TRUE
    [] v.k = "array" -> \A i \in 1..Len(v.items) : PlainTree(v.items[i])
    [] v.k = "object" ->
         /\ v.tag = NoTag /\ v.toJSON = "none"
         /\ \A i \in 1..Len(v.fields) : PlainTree(v.fields[i][2])
    [] OTHER -> FALSE

\* JSON.stringify(v) of a plain tree, with no replacer
RECURSIVE Stringify(_)
Stringify(v) ==
  CASE v.k = "null" -> JNull
    [] v.k = "boolean" -> JBool(v.b)
    [] v.k = "number" -> JNum(v.n)
    [] v.k = "string" -> JStr(v.s)
    [] v.k = "array" -> JArr([i \in 1..Len(v.items) |-> Stringify(v.items[i])])
    [] v.k = "object" ->
         JObj([i \in 1..Len(v.fields) |->
                 <<v.fields[i][1], Stringify(v.fields[i][2])>>])

\* Some record of the plain tree has both reserved fields of the envelope
RECURSIVE HasEnvelopeFields(_)
HasEnvelopeFields(v) ==
  CASE v.k = "array" -> \E i \in 1..Len(v.items) : HasEnvelopeFields(v.items[i])
    [] v.k = "object" ->
         \/ {DataType, DataValue} \subseteq Range(FieldKeys(v))
         \/ \E i \in 1..Len(v.fields) : HasEnvelopeFields(v.fields[i][2])
    [] OTHER -> FALSE

\* C22: for every value built only from strings, finite numbers, booleans,
\* null, arrays and string-keyed plain objects, Pickle(v) is the plain tree
\* serialization JSON.stringify(v); and if no record in v has both reserved
\* envelope fields, Unpickle(Pickle(v)) is deep-equal to v.
C22_PlainPassThrough ==
  (pin # None /\ PlainTree(pin)) =>
    /\ pout = Stringify(pin)
    /\ (RoundTripDone /\ ~HasEnvelopeFields(pin)) => DeepEqual(uout, pin)

\* A record with the tag field of an envelope and no payload field came back
\* as it was, with a decoder registered for the tag it names
C22_Witness ==
  /\ RoundTripDone /\ pin = OneReservedField /\ uout = pin
  /\ Entry(from, TestSymbol) = "TestUnpickle"

-----------------------------------------------------------------------------
(* C23: what the reviver takes for an envelope *)

\* The record the parser hands to the reviver for the object text t: its
\* members with their values as revived
RevivedNode(t) ==
  Plain(Fields(t.members,
               [i \in 1..Len(t.members) |->
                  InternalizeJSONProperty(from, t.members[i][2])]))

\* A non-null object with a string-valued tag field and a payload field
\* that satisfies isSimpleObject
EnvelopeShaped(node) ==
  /\ node.k = "object"
  /\ \E i \in 1..Len(node.fields) :
       node.fields[i][1] = DataType /\ node.fields[i][2].k = "string"
  /\ \E i \in 1..Len(node.fields) :
       node.fields[i][1] = DataValue /\ isSimpleObject(node.fields[i][2])

\* What the decoder registered for the node's tag string makes of its payload
\* (Undefined when there is none)
NodeDecoded(node) ==
  LET decoder == getUnpickler(from, FieldGet(node, DataType).s)
  IN IF decoder = "none" THEN Undefined
     ELSE ApplyFromFlat(decoder, FieldGet(node, DataValue))

\* C23: the reviver treats a node as an envelope exactly when it is a
\* non-null object with a string-valued tag field and a payload field
\* satisfying isSimpleObject; such a record whose tag string names a
\* registered decoder that accepts the payload is replaced by the decoder's
\* result, also when it was an ordinary record of the caller that no encoder
\* wrote, and every node not of this shape is returned unchanged.
C23_StructuralRecognition ==
  (uin # None /\ uout # None /\ uin.k = "jobj"
     /\ \A i \in 1..Len(uin.members) :
          ~IsThrow(InternalizeJSONProperty(from, uin.members[i][2]))) =>
    LET node == RevivedNode(uin)
    IN /\ (EnvelopeShaped(node) /\ NodeDecoded(node) # Undefined
             /\ ~IsThrow(NodeDecoded(node)))
            => uout = NodeDecoded(node)
       /\ ~EnvelopeShaped(node) => uout = node

\* A record of the caller that has the two fields, which no encoder wrote,
\* came back as a Set
C23_Witness ==
  /\ RoundTripDone /\ pin = LooksLikeSet /\ pout = Stringify(LooksLikeSet)
  /\ uout = SetV(<<Str("a")>>)

-----------------------------------------------------------------------------
(* C24: the Date decoder *)

\* The text is an envelope tagged freik.Date, read by the built-in decoder
IsDateEnvelope(t) ==
  /\ IsEnvelopeText(t) /\ t.members[1][2].s = "freik.Date"
  /\ getUnpickler(from, "freik.Date") = "DateUnpickle"

\* The payload text is a string that parses as a date
ParsesAsDate(payload) ==
  payload.k = "jstr" /\ ParseDate(payload.s) # InvalidDate

\* C24 (as claimed): the built-in Date decoder returns a Date for a payload
\* string that parses as a date, and undefined for a payload that is not a
\* string or is a string that fails to parse; so Unpickle of a Date envelope
\* with an unparsable string yields the envelope record unchanged and never
\* a Date object.
C24_DateDecode ==
  (uin # None /\ uout # None /\ IsDateEnvelope(uin)) =>
    IF ParsesAsDate(uin.members[2][2])
    THEN uout = ParseDate(uin.members[2][2].s)
    ELSE uout = PlainEnvelope(uin) /\ uout.k # "date"

-----------------------------------------------------------------------------
(* C25: the payloads the built-in decoders take *)

\* The strings that are the decimal digits of an integer
IsDecimalInteger(s) == s = "01" \/ \E n \in BigInts : ToString(n) = s

\* The payload shape the claim names for each built-in tag string
RecognizedShape(name, payload) ==
  CASE name = "freik.Map" ->
         /\ payload.k = "array"
         /\ \A i \in 1..Len(payload.items) :
              payload.items[i].k = "array" /\ Len(payload.items[i].items) = 2
    [] name = "freik.Set" -> payload.k = "array"
    [] name = "freik.Symbol" -> payload.k = "string"
    [] name = "freik.RegExp" ->
         /\ payload.k = "object"
         /\ \E i \in 1..Len(payload.fields) :
              payload.fields[i][1] = "source" /\ payload.fields[i][2].k = "string"
         /\ \E i \in 1..Len(payload.fields) :
              payload.fields[i][1] = "flags" /\ payload.fields[i][2].k = "string"
    [] name = "freik.BigInt" -> payload.k = "string" /\ IsDecimalInteger(payload.s)

\* The text is an envelope tagged Map, Set, Symbol, RegExp or BigInt, read
\* by the built-in decoder of that tag
IsBuiltInEnvelope(t) ==
  /\ IsEnvelopeText(t)
  /\ t.members[1][2].s \in BuiltInKeys \ {"freik.Date"}
  /\ getUnpickler(from, t.members[1][2].s)
       = theUnpicklers[SymbolFor(t.members[1][2].s)]
  /\ ~IsThrow(InternalizeJSONProperty(from, t.members[2][2]))

\* C25 (as claimed): the built-in decoders build a value only for the payload
\* shape they recognize (Map: a list whose every element is a 2-element list;
\* Set: a list; Symbol: a string; RegExp: string fields source and flags;
\* BigInt: a string that parses as a decimal integer); in every other case
\* the result is undefined and the envelope is passed through unchanged.
C25_BuiltInDecodersReject ==
  (uin # None /\ uout # None /\ IsBuiltInEnvelope(uin)) =>
    (~RecognizedShape(uin.members[1][2].s,
                      InternalizeJSONProperty(from, uin.members[2][2]))
       => uout = PlainEnvelope(uin))

-----------------------------------------------------------------------------
(* C26: isObjectOfType and isObjectOfExactType *)

\* The object has the field, with a value that is neither null nor undefined
HasValue(obj, f) ==
  /\ f \in Range(ObjectKeys(obj))
  /\ ObjectGet(obj, f) \notin {Null, Undefined}

\* The checker the caller gave for the field accepts the value the field holds
Accepted(checkers, obj, f) ==
  FieldChecker(checkers[f], ObjectGet(obj, f), [to |-> to, from |-> from])

\* What the claim says the call returns
StructuralCheck(exact, obj, requiredFields, optionalFields) ==
  /\ isObjectNonNull(obj)
  /\ \A f \in DOMAIN requiredFields :
       HasValue(obj, f) /\ Accepted(requiredFields, obj, f)
  /\ \A f \in DOMAIN optionalFields :
       HasValue(obj, f) => Accepted(optionalFields, obj, f)
  /\ exact =>
       \A f \in Range(ObjectKeys(obj)) :
         HasValue(obj, f) => f \in DOMAIN requiredFields \cup DOMAIN optionalFields

\* C26 (as claimed): isObjectOfType(obj, required, optional) is true exactly
\* when obj is a non-null object, every required field is present with a
\* non-null, non-undefined value accepted by its checker, and every present
\* optional field with a non-null value is accepted by its checker; fields
\* whose value is null or undefined are ignored; isObjectOfExactType
\* additionally requires that obj has no other non-null field outside
\* required and optional.
C26_StructuralObjectCheck ==
  call.fn \in {"isObjectOfType", "isObjectOfExactType"} =>
    /\ ret.err = "none"
    /\ ret.res = StructuralCheck(call.fn = "isObjectOfExactType", call.obj,
                                 call.requiredFields, call.optionalFields)

-----------------------------------------------------------------------------
(* C27: asSimpleObject *)

\* The value is built only from strings, numbers (NaN is one), booleans,
\* null, arrays and string-keyed plain objects
RECURSIVE BuiltFromAnyNumber(_)
BuiltFromAnyNumber(v) ==
  CASE v.k \in {"null", "boolean", "number", "nan", "string"} -> TRUE
    [] v.k = "array" -> \A i \in 1..Len(v.items) : BuiltFromAnyNumber(v.items[i])
    [] v.k = "object" ->
         /\ v.tag = NoTag /\ v.toJSON = "none"
         /\ \A i \in 1..Len(v.fields) : BuiltFromAnyNumber(v.fields[i][2])
    [] OTHER -> FALSE

\* The result is a serializer-safe tree; of an array it is the array of the
\* elements that are serializer-safe, in their order; of a value that is
\* neither an object nor a primitive of the tree it is the default
ConvertedSafely ==
  /\ isSimpleObject(ret.val)
  /\ call.x.k = "array" =>
       /\ ret.val.k = "array"
       /\ ret.val.items = SelectSeq(call.x.items, LAMBDA e : isSimpleObject(e))
  /\ call.x.k \in {"function", "undefined", "symbol", "bigint"} => ret.val = call.def

\* C27 (as claimed): isSimpleObject(asSimpleObject(x)) is true for every
\* input x; array elements that are not serializer-safe are removed; inputs
\* such as functions yield the default; and asSimpleObject(x) is deep-equal
\* to x whenever x is built only from strings, numbers, booleans, null,
\* arrays and string-keyed objects.
C27_AsSimpleObjectAnyNumber ==
  call.fn = "asSimpleObject" =>
    /\ ConvertedSafely
    /\ BuiltFromAnyNumber(call.x) => DeepEqual(ret.val, call.x)

\* C27 (amended): isSimpleObject(asSimpleObject(x)) is true for every input
\* x; array elements that are not serializer-safe are removed; inputs such
\* as functions yield the default; and asSimpleObject(x) is deep-equal to x
\* whenever x is built only from strings, numbers other than NaN, booleans,
\* null, arrays and string-keyed objects.
C27_AsSimpleObject ==
  call.fn = "asSimpleObject" =>
    /\ ConvertedSafely
    /\ PlainTree(call.x) => DeepEqual(ret.val, call.x)

\* The array of the test with a function at its end came back without it
C27_Witness ==
  /\ call.fn = "asSimpleObject"
  /\ call.x = Arr(Append(SimpleArr.items, Fn("f")))
  /\ ret.val = SimpleArr

-----------------------------------------------------------------------------
(* C28: encoders and decoders of the registry *)

\* C28: in every state reachable from a fresh module load through any
\* sequence of RegisterForPickling calls, every tag that has an encode entry
\* in the registry also has a decode entry (the reverse need not hold).
C28_EncoderImpliesDecoder ==
  \A tag \in DOMAIN to : Entry(from, tag) # "none"

\* Codecs were registered for a global and for a local symbol, and a decoder
\* alone for two more tags: these have a decode entry and no encode entry
C28_Witness ==
  /\ Entry(to, LocalTag) = "Test2Pickle" /\ Entry(from, LocalTag) = "TestUnpickle"
  /\ Entry(to, Test3Symbol) = "Type3Pickle"
  /\ Entry(from, TestSymbol) = "TestUnpickle" /\ Entry(to, TestSymbol) = "none"
  /\ DOMAIN to # DOMAIN from

-----------------------------------------------------------------------------
(* C29: registerPickling() called again *)

\* C29: after the module has loaded successfully, every further call to
\* registerPickling returns the Already result of the current environment
\* (NodeAlready or DomAlready) and never replaces the registry maps in the
\* slot, so that every entry added earlier by RegisterForPickling is still
\* returned by later lookups.
C29_ReinitIdempotent ==
  [][(Loaded /\ DoRegisterPickling) =>
       /\ load' = (IF browser THEN "DomAlready" ELSE "NodeAlready")
       /\ NotReplaced(slot, slot')
       /\ to' = to /\ from' = from
       /\ \A tag \in AllTags :
            /\ getPickleHandler(to', tag) = getPickleHandler(to, tag)
            /\ getUnpickleHandler(from', tag) = getUnpickleHandler(from, tag)]_vars

\* In a browser, after a registration and a further registerPickling() call,
\* a text is decoded by the decoder that was registered
C29_Witness ==
  /\ browser /\ load = "DomAlready" /\ slot = RegistrySlot
  /\ Entry(from, Test2Symbol) = "Test2UnpickleB"
  /\ uin = Test2Text /\ uout = MakeType2B

Spec == Init /\ [][Next]_vars

LoadSpec == LoadInit /\ [][LoadNext]_vars

ChkSpec == Init /\ [][ChkNext]_vars

====
